---- MODULE Spec2Model ----
(***************************************************************************)
(* Model of training/infer.py: the Inference object (pre/post-processing   *)
(* around an opaque denoising model) and the dataset loop of main().       *)
(*                                                                         *)
(* Tensors are records [C, H, W, v] (batch axis of size 1 dropped) with    *)
(* v a function over (channel, row, column), all indices 0-based as in the *)
(* source.  Values are integers on a fixed-point grid: 0 is 0.0, 1 is 1.0. *)
(***************************************************************************)
EXTENDS Integers, Sequences, FiniteSets, TLC

\* ------------------------------------------------------------------ bounds
MaxDim      == 3   \* largest height / width of an input
MaxAlign    == 2   \* largest model alignment
MaxAux      == 1   \* largest number of auxiliary channels after the main feature
MaxSeed     == 1   \* input tensors are drawn from seeds 0..MaxSeed
MaxExposure == 2   \* exposures are drawn from 1..MaxExposure

\* --------------------------------------------------------------- features
Features == {"hdr", "ldr", "alb", "nrm", "sh1"}

\* len(get_dataset_channels(main_feature))
NumMainChannels(f) == IF f = "sh1" THEN 9 ELSE 3

\* ---------------------------------------------------------------- tensors
Min(a, b) == IF a < b THEN a ELSE b
Max(a, b) == IF a > b THEN a ELSE b

\* x[:, a:b, ...]
SliceChannels(t, a, b) ==
  LET lo == Min(a, t.C)
      hi == Max(lo, Min(b, t.C))
  IN  [C |-> hi - lo, H |-> t.H, W |-> t.W,
       v |-> [c \in 0..(hi - lo - 1), h \in 0..(t.H - 1), w \in 0..(t.W - 1)
                |-> t.v[c + lo, h, w]]]

\* x[:, a:, ...]
SliceChannelsFrom(t, a) == SliceChannels(t, a, t.C)

\* torch.cat((t1, t2), 1)
Cat2(t1, t2) ==
  [C |-> t1.C + t2.C, H |-> t1.H, W |-> t1.W,
   v |-> [c \in 0..(t1.C + t2.C - 1), h \in 0..(t1.H - 1), w \in 0..(t1.W - 1)
            |-> IF c < t1.C THEN t1.v[c, h, w] ELSE t2.v[c - t1.C, h, w]]]

\* torch.cat([a, b, c], 1)
Cat3(a, b, c) == Cat2(Cat2(a, b), c)

\* x[:, 0:n, ...] = color
WriteChannels(t, n, color) ==
  [t EXCEPT !.v = [c \in 0..(t.C - 1), h \in 0..(t.H - 1), w \in 0..(t.W - 1)
                     |-> IF c < n THEN color.v[c, h, w] ELSE t.v[c, h, w]]]

\* F.pad(x, (left, right, top, bottom)): constant mode, fill value 0
FPad(t, left, right, top, bottom) ==
  [C |-> t.C, H |-> t.H + top + bottom, W |-> t.W + left + right,
   v |-> [c \in 0..(t.C - 1), h \in 0..(t.H + top + bottom - 1),
          w \in 0..(t.W + left + right - 1)
            |-> IF /\ h >= top  /\ h < top + t.H
                   /\ w >= left /\ w < left + t.W
                THEN t.v[c, h - top, w - left] ELSE 0]]

\* x[:, :, :h2, :w2]
SliceSpatial(t, h2, w2) ==
  LET hh == Min(h2, t.H)
      ww == Min(w2, t.W)
  IN  [C |-> t.C, H |-> hh, W |-> ww,
       v |-> [c \in 0..(t.C - 1), h \in 0..(hh - 1), w \in 0..(ww - 1)
                |-> t.v[c, h, w]]]

ClampMinValue(y) == IF y < 0 THEN 0 ELSE y
ClampMaxValue(y) == IF y > 1 THEN 1 ELSE y

\* torch.clamp(x, min=0.)
ClampMin(t) == [t EXCEPT !.v = [p \in DOMAIN t.v |-> ClampMinValue(t.v[p])]]
\* torch.clamp(x, max=1.)
ClampMax(t) == [t EXCEPT !.v = [p \in DOMAIN t.v |-> ClampMaxValue(t.v[p])]]

\* x *= e
Scale(t, e) == [t EXCEPT !.v = [p \in DOMAIN t.v |-> t.v[p] * e]]
\* x /= e, rounded to the value grid
Unscale(t, e) == [t EXCEPT !.v = [p \in DOMAIN t.v |-> t.v[p] \div e]]

\* util.round_up(a, b): the smallest multiple of b that is >= a
round_up(a, b) == ((a + b - 1) \div b) * b

\* ------------------------------------------------- transfer function kinds
\* "none" is self.transfer = None.  The others are pairs (forward, inverse)
\* with inverse(forward(y)) = y for every y:
\*   linear: forward and inverse are the identity (no-op);
\*   gain:   forward(y) = 2y,    inverse(z) = z / 2   (forward keeps the sign);
\*   offset: forward(y) = y - 1, inverse(z) = z + 1   (forward(0) # 0).
Transfers == {"none", "linear", "gain", "offset"}

TransferForwardValue(k, y) ==
  CASE k = "linear" -> y
    [] k = "gain"   -> 2 * y
    [] k = "offset" -> y - 1

TransferInverseValue(k, z) ==
  CASE k = "linear" -> z
    [] k = "gain"   -> z \div 2
    [] k = "offset" -> z + 1

\* self.transfer.forward(x), self.transfer.inverse(x)
TransferForward(k, t) ==
  [t EXCEPT !.v = [p \in DOMAIN t.v |-> TransferForwardValue(k, t.v[p])]]
TransferInverse(k, t) ==
  [t EXCEPT !.v = [p \in DOMAIN t.v |-> TransferInverseValue(k, t.v[p])]]

\* ------------------------------------------------------------ model kinds
\* The Model is a black box that preserves H and W.
\*   identity: returns its input;
\*   rgb:      returns the first 3 channels unchanged;
\*   under:    returns the first 3 channels lowered by 2 (undershoot below 0);
\*   over:     returns the first 3 channels raised by 2 (overshoot above 1).
Models == {"identity", "rgb", "under", "over"}

ModelValue(m, y) ==
  CASE m = "identity" -> y
    [] m = "rgb"      -> y
    [] m = "under"    -> y - 2
    [] m = "over"     -> y + 2

\* self.model(t)
ModelApply(m, t) ==
  LET In == IF m = "identity" THEN t ELSE SliceChannels(t, 0, 3)
  IN  [In EXCEPT !.v = [c \in 0..(In.C - 1), h \in 0..(In.H - 1), w \in 0..(In.W - 1)
                          |-> ModelValue(m, In.v[c, h, w])]]

\* ------------------------------------------------------------------ state
VARIABLES
  main_feature,   \* Inference.main_feature
  transfer,       \* Inference.transfer (a kind of Transfers)
  model,          \* Inference.model (a kind of Models)
  alignment,      \* Inference.model.alignment
  input,          \* argument of the current / last Inference.__call__
  exposure,       \* argument of the current / last Inference.__call__
  x_padded,       \* the tensor after "Pad the output" in the last call
  calls,          \* the tensors passed to self.model in the last call, in order
  output,         \* the tensor returned by the last call
  pc,             \* position of the caller
  cfg,            \* main: the parsed command line (metric, format, save_all, num_epochs)
  groups,         \* main: image_sample_groups
  gi,             \* main: index of the current group
  ii,             \* main: index of the current input of the group
  target,         \* main: the target of the current group (NoTensor if none)
  tonemap_exposure, \* main: exposure of the current group's metadata, or 1
  metric_sum,     \* main: metric_sum
  metric_count,   \* main: metric_count
  grad_enabled,   \* torch.is_grad_enabled()
  grad_prev,      \* the mode torch.no_grad() saved on entry
  grad_initial,   \* the mode in force when main() started
  files,          \* the files written by save_image, in order
  events,         \* the external calls made so far, in order
  summary,        \* the averages printed by "Print summary", or NoSummary
  error           \* the error that ended the run, or "none"

inferVars == <<main_feature, transfer, model, alignment>>
callVars  == <<input, exposure, x_padded, calls, output>>
mainVars  == <<cfg, groups, gi, ii, target, tonemap_exposure, metric_sum,
               metric_count, grad_enabled, grad_prev, grad_initial, files,
               events, summary, error>>

NoTensor == [C |-> 0, H |-> 0, W |-> 0, v |-> <<>>]

\* ---------------------------------------------------- Inference.__call__
\* "Apply the transfer function"
ApplyTransfer(x, e) ==
  IF transfer # "none"
  THEN LET n      == NumMainChannels(main_feature)
           color0 == SliceChannels(x, 0, n)
           color1 == IF main_feature = "hdr" THEN Scale(color0, e) ELSE color0
           color2 == TransferForward(transfer, color1)
       IN  WriteChannels(x, n, color2)
  ELSE x

PadInputLeading(x) ==
  FPad(x, round_up(x.W, alignment) - x.W, 0, round_up(x.H, alignment) - x.H, 0)

\* "Pad the output"
PadInput(x) ==
  FPad(x, 0, round_up(x.W, alignment) - x.W, 0, round_up(x.H, alignment) - x.H)

Sh1Offsets == <<0, 3, 6>>

ModelInputsSwapped(x) ==
  IF main_feature = "sh1"
  THEN [k \in 1..3 |-> Cat2(SliceChannels(x, Sh1Offsets[4 - k], Sh1Offsets[4 - k] + 3),
                            SliceChannelsFrom(x, 9))]
  ELSE <<x>>

\* the arguments of self.model, in call order
ModelInputs(x) ==
  IF main_feature = "sh1"
  THEN [k \in 1..3 |-> Cat2(SliceChannels(x, Sh1Offsets[k], Sh1Offsets[k] + 3),
                            SliceChannelsFrom(x, 9))]
  ELSE <<x>>

\* "Run the inference": the result of the model calls, put together
RunInference(ins) ==
  IF main_feature = "sh1"
  THEN Cat3(ModelApply(model, ins[1]), ModelApply(model, ins[2]),
            ModelApply(model, ins[3]))
  ELSE ModelApply(model, ins[1])

UnpadNone(x, h, w) == x

\* "Unpad the output"
Unpad(x, h, w) == SliceSpatial(x, h, w)

SanitizeNone(x) == x

\* "Sanitize the output"
Sanitize(x) == ClampMin(x)

ApplyInverseNoUnscale(x, e) ==
  IF transfer # "none"
  THEN LET y == TransferInverse(transfer, x)
       IN  IF main_feature = "hdr" THEN y ELSE ClampMax(y)
  ELSE x

\* "Apply the inverse transfer function"
ApplyInverse(x, e) ==
  IF transfer # "none"
  THEN LET y == TransferInverse(transfer, x)
       IN  IF main_feature = "hdr" THEN Unscale(y, e) ELSE ClampMax(y)
  ELSE x

\* everything after the model calls
PostProcess(x, h, w, e) == ApplyInverse(Sanitize(Unpad(x, h, w)), e)

\* Inference.__call__(inp, e): the padded tensor, the model arguments, the result
InferenceCall(inp, e) ==
  LET x1  == ApplyTransfer(inp, e)
      x2  == PadInput(x1)
      ins == ModelInputs(x2)
      x3  == RunInference(ins)
  IN  [padded |-> x2, calls |-> ins, out |-> PostProcess(x3, x1.H, x1.W, e)]

\* ------------------------------------------------------------ input data
Values == <<0, 2, -1, 1, 3, -2, 4>>

\* a loaded feature tensor: the main feature followed by aux channels
InputTensor(f, aux, H, W, seed) ==
  [C |-> NumMainChannels(f) + aux, H |-> H, W |-> W,
   v |-> [c \in 0..(NumMainChannels(f) + aux - 1), h \in 0..(H - 1), w \in 0..(W - 1)
            |-> Values[((seed + c + 2 * h + 3 * w) % Len(Values)) + 1]]]

NoCfg == [metric |-> <<>>, format |-> <<>>, save_all |-> FALSE, num_epochs |-> 0]
NoSummary == [printed |-> FALSE]

\* ------------------------------------------- specification of one call
Init ==
  /\ main_feature \in Features
  /\ transfer \in Transfers
  /\ model \in Models
  /\ alignment \in 1..MaxAlign
  /\ \E aux \in 0..MaxAux, H \in 1..MaxDim, W \in 1..MaxDim, seed \in 0..MaxSeed :
       input = InputTensor(main_feature, aux, H, W, seed)
  /\ exposure \in 1..MaxExposure
  /\ x_padded = NoTensor
  /\ calls = <<>>
  /\ output = NoTensor
  /\ pc = "call"
  /\ cfg = NoCfg
  /\ groups = <<>>
  /\ gi = 0
  /\ ii = 0
  /\ target = NoTensor
  /\ tonemap_exposure = 1
  /\ metric_sum = <<>>
  /\ metric_count = 0
  /\ grad_enabled = TRUE
  /\ grad_prev = grad_enabled
  /\ grad_initial = grad_enabled
  /\ files = <<>>
  /\ events = <<>>
  /\ summary = NoSummary
  /\ error = "none"

Call ==
  /\ pc = "call"
  /\ LET r == InferenceCall(input, exposure)
     IN  /\ x_padded' = r.padded
         /\ calls' = r.calls
         /\ output' = r.out
  /\ pc' = "returned"
  /\ UNCHANGED <<inferVars, input, exposure, mainVars>>

vars == <<inferVars, callVars, pc, mainVars>>

Next == Call

Spec == Init /\ [][Next]_vars

\* ------------------------------------------------- claims about one call
Returned == pc = "returned"

AllValues(t, P(_)) ==
  \A c \in 0..(t.C - 1), h \in 0..(t.H - 1), w \in 0..(t.W - 1) : P(t.v[c, h, w])

\* C1: with a model that preserves height and width, the tensor returned for
\* an input of size H x W has height exactly H and width exactly W, for every
\* alignment, padded or not.
C1_ShapePreserved ==
  Returned => (output.H = input.H /\ output.W = input.W)

C1_Witness ==
  /\ Returned
  /\ input.H % alignment # 0
  /\ input.W % alignment = 0
  /\ x_padded.H > input.H
  /\ output.H = input.H

\* C2: every returned value is non-negative, and for a non-HDR main feature
\* every returned value lies in [0, 1], with or without a transfer function
\* and whatever the model returns.
C2_OutputRange ==
  Returned =>
    /\ AllValues(output, LAMBDA y : y >= 0)
    /\ main_feature # "hdr" => AllValues(output, LAMBDA y : y <= 1)

\* the tensor the model calls see for input x, channel by channel: for sh1 the
\* three (basis, aux) groups one after the other, otherwise x itself
Regrouped(x) ==
  IF main_feature = "sh1"
  THEN Cat3(Cat2(SliceChannels(x, 0, 3), SliceChannelsFrom(x, 9)),
            Cat2(SliceChannels(x, 3, 6), SliceChannelsFrom(x, 9)),
            Cat2(SliceChannels(x, 6, 9), SliceChannelsFrom(x, 9)))
  ELSE x

IdentityCollaborators ==
  /\ Returned
  /\ model = "identity"
  /\ transfer = "linear"
  /\ exposure = 1

\* C3 as stated: with an identity model and a no-op transfer function,
\* process(x, 1.0) = clamp(x, min=0) for every main feature.
C3_RoundTripAsStated ==
  IdentityCollaborators => output = ClampMin(input)

\* C3 amended: with an identity model and a no-op transfer function,
\* process(x, 1.0) = clamp(x, min=0) for the HDR main feature and
\* clamp(x, min=0, max=1) for the other main features (for sh1, of x
\* regrouped per basis as the model saw it).
C3_RoundTrip ==
  IdentityCollaborators =>
    IF main_feature = "hdr"
    THEN output = ClampMin(input)
    ELSE output = ClampMax(ClampMin(Regrouped(input)))

C3_Witness ==
  /\ IdentityCollaborators
  /\ main_feature = "nrm"
  /\ \E c \in 0..(input.C - 1), h \in 0..(input.H - 1), w \in 0..(input.W - 1) :
       input.v[c, h, w] > 1 /\ output.v[c, h, w] = 1
  /\ \E c \in 0..(input.C - 1), h \in 0..(input.H - 1), w \in 0..(input.W - 1) :
       input.v[c, h, w] < 0 /\ output.v[c, h, w] = 0

SampleValues == -8..8

\* inverse exactly undoes forward
ExactInverse(k) ==
  k # "none" /\
  \A y \in SampleValues : TransferInverseValue(k, TransferForwardValue(k, y)) = y

\* forward maps negative values to negative values and the others to
\* non-negative values
SignPreserving(k) ==
  k # "none" /\
  \A y \in SampleValues : (TransferForwardValue(k, y) >= 0) <=> (y >= 0)

\* C4 as stated: HDR main feature, identity model, a transfer function whose
\* inverse exactly undoes its forward: process(x, e) = clamp(x, min=0) for
\* every e > 0 and every x.  Compared on the main-feature channels, the part
\* of x that is scaled by e and transformed before the model.
C4_ExposureCancelsAsStated ==
  (Returned /\ main_feature = "hdr" /\ model = "identity" /\ ExactInverse(transfer))
    => SliceChannels(output, 0, NumMainChannels(main_feature))
         = ClampMin(SliceChannels(input, 0, NumMainChannels(main_feature)))

\* C4 amended: HDR main feature, identity model, a transfer function whose
\* inverse exactly undoes its forward and whose forward keeps the sign:
\* on the main-feature channels process(x, e) = clamp(x, min=0) for every
\* e > 0 and every x.
C4_ExposureCancels ==
  (/\ Returned /\ main_feature = "hdr" /\ model = "identity"
   /\ ExactInverse(transfer) /\ SignPreserving(transfer))
    => SliceChannels(output, 0, NumMainChannels(main_feature))
         = ClampMin(SliceChannels(input, 0, NumMainChannels(main_feature)))

C4_Witness ==
  /\ Returned /\ main_feature = "hdr" /\ model = "identity"
  /\ transfer = "gain" /\ ExactInverse(transfer) /\ SignPreserving(transfer)
  /\ exposure > 1
  /\ \E h \in 0..(input.H - 1), w \in 0..(input.W - 1) :
       input.v[0, h, w] < 0 /\ output.v[0, h, w] = 0
  /\ \E h \in 0..(input.H - 1), w \in 0..(input.W - 1) :
       input.v[0, h, w] > 1 /\ output.v[0, h, w] = input.v[0, h, w]

\* C9: every tensor passed to the model has height and width that are
\* multiples of the alignment; the pad per dimension is at least 0, less than
\* the alignment, and 0 when the dimension is already a multiple; padding is
\* at the trailing edge only, so every element keeps its position.
C9_AlignedTrailingPad ==
  Returned =>
    LET x == ApplyTransfer(input, exposure)
    IN  /\ \A k \in 1..Len(calls) :
             /\ calls[k].H % alignment = 0 /\ calls[k].W % alignment = 0
             /\ calls[k].H = x_padded.H /\ calls[k].W = x_padded.W
        /\ x_padded.H - x.H \in 0..(alignment - 1)
        /\ x_padded.W - x.W \in 0..(alignment - 1)
        /\ x_padded.H % alignment = 0 /\ x_padded.W % alignment = 0
        /\ \A c \in 0..(x.C - 1), h \in 0..(x.H - 1), w \in 0..(x.W - 1) :
             x_padded.v[c, h, w] = x.v[c, h, w]

C9_Witness ==
  /\ Returned
  /\ x_padded.H = input.H + 1
  /\ x_padded.W = input.W
  /\ alignment > 1
  /\ Len(calls) = 3

\* C10: for sh1 the model is called exactly three times, on the bases at
\* channel offsets 0, 3, 6 in that order, each followed by the channels from
\* offset 9 on, and the result is built from the three results in that order
\* (9 channels when the model returns 3); otherwise the model is called
\* exactly once on the whole padded tensor.
C10_Sh1Calls ==
  Returned =>
    IF main_feature = "sh1"
    THEN /\ Len(calls) = 3
         /\ \A k \in 1..3 :
              /\ calls[k].C = 3 + (x_padded.C - 9)
              /\ \A c \in 0..(calls[k].C - 1), h \in 0..(x_padded.H - 1),
                    w \in 0..(x_padded.W - 1) :
                   calls[k].v[c, h, w] =
                     IF c < 3 THEN x_padded.v[3 * (k - 1) + c, h, w]
                              ELSE x_padded.v[9 + (c - 3), h, w]
         /\ output = PostProcess(Cat3(ModelApply(model, calls[1]),
                                      ModelApply(model, calls[2]),
                                      ModelApply(model, calls[3])),
                                 input.H, input.W, exposure)
         /\ model # "identity" => output.C = 9
    ELSE /\ Len(calls) = 1
         /\ calls[1] = x_padded

C10_Witness ==
  /\ Returned
  /\ main_feature = "sh1"
  /\ input.C > 9
  /\ model = "rgb"
  /\ output.C = 9
  /\ Len(calls) = 3
  /\ calls[1] # calls[2] /\ calls[2] # calls[3] /\ calls[1] # calls[3]

\* ================================================================= main()
MaxInputs == 3   \* largest number of input images in a dataset

\* ------------------------------------------------------ external helpers
\* tensor_to_image: (C, H, W) tensor to (H, W, C) pixel array
tensor_to_image(t) ==
  [H |-> t.H, W |-> t.W, C |-> t.C,
   px |-> [h \in 0..(t.H - 1), w \in 0..(t.W - 1), c \in 0..(t.C - 1) |-> t.v[c, h, w]]]

\* image * 2. - 1.
RemapSigned(img) ==
  [img EXCEPT !.px = [h \in 0..(img.H - 1), w \in 0..(img.W - 1), c \in 0..(img.C - 1)
                        |-> img.px[h, w, c] * 2 - 1]]

\* transform_feature(x, main_feature, 'srgb', e): display values in [0, 1]
transform_feature(t, e) ==
  ClampMax(ClampMin(IF main_feature = "hdr" THEN Scale(t, e) ELSE t))

\* autoexposure(input): a positive gain that depends on the image only
autoexposure(t) == 1 + ((t.v[0, 0, 0] + Len(Values)) % MaxExposure)

Abs(y) == IF y < 0 THEN -y ELSE y

RECURSIVE SumSeq(_)
SumSeq(q) == IF q = <<>> THEN 0 ELSE Head(q) + SumSeq(Tail(q))

\* compare_images(a, b, metric): a number that depends on both images
compare_images(a, b, metric) ==
  LET d == [c \in 1..a.C |-> a.v[c - 1, 0, 0] - b.v[c - 1, 0, 0]]
  IN  IF metric = "mse" THEN SumSeq([c \in 1..a.C |-> d[c] * d[c]])
                        ELSE SumSeq([c \in 1..a.C |-> Abs(d[c])])

\* load_image_features(name, features): the file's content
LoadInput(g, i) == InputTensor(main_feature, MaxAux, 1, 1, g + 2 * i)
LoadTarget(g)   == InputTensor(main_feature, 0, 1, 1, g + 1)

\* --------------------------------------------------------- torch.no_grad
NoGradEnter == FALSE

NoGradExitLeak(prev) == FALSE

\* __exit__: the mode saved on entry is put back
NoGradExit(prev) == prev

\* ----------------------------------------------------------- save_images
HdrFormats == {"exr", "pfm", "hdr"}

\* the "for format in cfg.format" loop from format number k on; image is the
\* loop's variable of that name, image0 its value before the loop.  A file is
\* [name, data], with the pixel array made from the tensor as field image.
RECURSIVE SaveFormats(_, _, _, _, _, _)
SaveFormats(path, suffix, image, image_srgb, image0, k) ==
  IF k > Len(cfg.format) THEN <<>>
  ELSE LET format == cfg.format[k]
           image1 == IF format \in HdrFormats /\ main_feature \in {"sh1", "nrm"}
                     THEN RemapSigned(image) ELSE image
       IN  <<[name |-> <<path, suffix, format>>,
              data |-> IF format \in HdrFormats THEN image1 ELSE image_srgb,
              image |-> image0]>>
           \o SaveFormats(path, suffix, image1, image_srgb, image0, k + 1)

\* save_images for a suffix other than 'sh1'
SaveImagesPlain(path, t, t_srgb, suffix) ==
  SaveFormats(path, suffix, tensor_to_image(t), tensor_to_image(t_srgb),
              tensor_to_image(t), 1)

\* save_images(path, image, image_srgb): the files written, in order
save_images(path, t, t_srgb) ==
  IF main_feature = "sh1"
  THEN SaveImagesPlain(path, SliceChannels(t, 0, 3), SliceChannels(t_srgb, 0, 3), "sh1x")
       \o SaveImagesPlain(path, SliceChannels(t, 3, 6), SliceChannels(t_srgb, 3, 6), "sh1y")
       \o SaveImagesPlain(path, SliceChannels(t, 6, 9), SliceChannels(t_srgb, 6, 9), "sh1z")
  ELSE SaveImagesPlain(path, t, t_srgb, main_feature)

\* ---------------------------------------------------------------- inputs
MetricLists == {<<>>, <<"mse">>, <<"mse", "ssim">>}
FormatLists == {<<"exr">>, <<"png", "exr">>, <<"exr", "pfm">>}

\* every dataset with at most n inputs: groups of [n inputs, target or not]
RECURSIVE Datasets(_)
Datasets(n) ==
  {<<>>} \cup
  UNION { { <<g>> \o d : d \in Datasets(n - g.n) } :
          g \in [n : 1..n, target : BOOLEAN] }

Range(q) == {q[k] : k \in 1..Len(q)}

\* main() tells hdr, nrm and sh1 from the rest; ldr stands for the rest
MainFeatures == {"hdr", "ldr", "nrm", "sh1"}

InitMain ==
  /\ main_feature \in MainFeatures
  /\ transfer = "gain"
  /\ model = "rgb"
  /\ alignment = MaxAlign
  /\ input = NoTensor
  /\ exposure = 1
  /\ x_padded = NoTensor
  /\ calls = <<>>
  /\ output = NoTensor
  /\ pc = "main"
  /\ cfg \in [metric : MetricLists, format : FormatLists, save_all : BOOLEAN,
              num_epochs : 0..1]
  /\ groups \in Datasets(MaxInputs)
  /\ gi = 0
  /\ ii = 0
  /\ target = NoTensor
  /\ tonemap_exposure = 1
  /\ metric_sum = <<>>
  /\ metric_count = 0
  /\ grad_enabled \in BOOLEAN
  /\ grad_prev = grad_enabled
  /\ grad_initial = grad_enabled
  /\ files = <<>>
  /\ events = <<>>
  /\ summary = NoSummary
  /\ error = "none"

\* ----------------------------------------------------------- main: steps
Group == groups[gi]
InputName == <<gi, ii>>
NumMain == NumMainChannels(main_feature)

\* a group that has a target also has the metadata sidecar
HasMetadata(g) == g.target

\* leaving the "with torch.no_grad()" block by an exception
Abort(kind) ==
  /\ pc' = "aborted"
  /\ error' = kind
  /\ grad_enabled' = NoGradExit(grad_prev)
  /\ UNCHANGED <<inferVars, callVars, cfg, groups, gi, ii, target, tonemap_exposure,
                 metric_sum, metric_count, grad_prev, grad_initial, files, events,
                 summary>>

\* lines 82-93: the result directory does not exist
OpenResultFails ==
  /\ pc = "main"
  /\ pc' = "aborted"
  /\ error' = "config"
  /\ UNCHANGED <<inferVars, callVars, cfg, groups, gi, ii, target, tonemap_exposure,
                 metric_sum, metric_count, grad_enabled, grad_prev, grad_initial,
                 files, events, summary>>

\* lines 82-125: up to the entry of the "with torch.no_grad()" block
Start ==
  /\ pc = "main"
  /\ metric_sum' = [m \in Range(cfg.metric) |-> 0]
  /\ metric_count' = 0
  /\ grad_prev' = grad_enabled
  /\ grad_enabled' = NoGradEnter
  /\ gi' = 1
  /\ pc' = "group"
  /\ UNCHANGED <<inferVars, callVars, cfg, groups, ii, target, tonemap_exposure,
                 grad_initial, files, events, summary, error>>

\* lines 126-143: the head of the loop over the groups
BeginGroup ==
  /\ pc = "group"
  /\ gi <= Len(groups)
  /\ tonemap_exposure' = IF HasMetadata(Group) THEN MaxExposure ELSE 1
  /\ target' = IF Group.target THEN LoadTarget(gi) ELSE target
  /\ events' = events
       \o (IF HasMetadata(Group) THEN <<[ev |-> "save_metadata", name |-> <<gi>>]>> ELSE <<>>)
       \o (IF Group.target THEN <<[ev |-> "load_target", name |-> <<gi>>]>> ELSE <<>>)
  /\ ii' = 1
  /\ pc' = "input"
  /\ UNCHANGED <<inferVars, callVars, cfg, groups, gi, metric_sum, metric_count,
                 grad_enabled, grad_prev, grad_initial, files, summary, error>>

\* lines 126, 189-191: the loop over the groups ends and the block is left
EndLoop ==
  /\ pc = "group"
  /\ gi > Len(groups)
  /\ grad_enabled' = NoGradExit(grad_prev)
  /\ pc' = "summary"
  /\ UNCHANGED <<inferVars, callVars, cfg, groups, gi, ii, target, tonemap_exposure,
                 metric_sum, metric_count, grad_prev, grad_initial, files, events,
                 summary, error>>

\* lines 146-153: load the next input and compute its exposure
LoadStep ==
  /\ pc = "input"
  /\ ii <= Group.n
  /\ input' = LoadInput(gi, ii)
  /\ exposure' = IF main_feature = "hdr" THEN autoexposure(input') ELSE 1
  /\ events' = Append(events, [ev |-> "load", name |-> InputName])
  /\ pc' = "infer"
  /\ UNCHANGED <<inferVars, x_padded, calls, output, cfg, groups, gi, ii, target,
                 tonemap_exposure, metric_sum, metric_count, grad_enabled, grad_prev,
                 grad_initial, files, summary, error>>

\* lines 155-159: infer, then keep only the main feature of the input.  The
\* model calls go to the event log; the locals of the call end with it.
InferStep ==
  /\ pc = "infer"
  /\ LET r == InferenceCall(input, exposure)
     IN  /\ output' = r.out
         /\ events' = events \o [k \in 1..Len(r.calls) |->
                                   [ev |-> "model", name |-> InputName,
                                    grad |-> grad_enabled]]
  /\ input' = SliceChannels(input, 0, NumMain)
  /\ pc' = "metrics"
  /\ UNCHANGED <<inferVars, exposure, x_padded, calls, cfg, groups, gi, ii, target, tonemap_exposure,
                 metric_sum, metric_count, grad_enabled, grad_prev, grad_initial,
                 files, summary, error>>

\* line 167: the value of each requested metric for the current output
MetricValues ==
  [k \in 1..Len(cfg.metric) |->
     compare_images(transform_feature(output, tonemap_exposure),
                    transform_feature(target, tonemap_exposure), cfg.metric[k])]

\* line 168, for the metrics from number k on
RECURSIVE AddMetrics(_, _, _)
AddMetrics(sum, values, k) ==
  IF k > Len(cfg.metric) THEN sum
  ELSE AddMetrics([sum EXCEPT ![cfg.metric[k]] = @ + values[k]], values, k + 1)

MetricCountPerMetric(count, nmetrics) == count + nmetrics

\* line 172
MetricCountStep(count, nmetrics) == count + 1

ComputesMetrics == Group.target /\ cfg.metric # <<>>

\* lines 163-172: compute metrics
MetricsStep ==
  /\ pc = "metrics"
  /\ IF ComputesMetrics
     THEN /\ metric_sum' = AddMetrics(metric_sum, MetricValues, 1)
          /\ metric_count' = MetricCountStep(metric_count, Len(cfg.metric))
          /\ events' = events \o [k \in 1..Len(cfg.metric) |->
                                    [ev |-> "compare", name |-> InputName,
                                     metric |-> cfg.metric[k],
                                     value |-> MetricValues[k]]]
     ELSE UNCHANGED <<metric_sum, metric_count, events>>
  /\ pc' = "save"
  /\ UNCHANGED <<inferVars, callVars, cfg, groups, gi, ii, target, tonemap_exposure,
                 grad_enabled, grad_prev, grad_initial, files, summary, error>>

\* lines 176-177: "epoch" is not a name of main(): NameError
EpochNameError ==
  /\ pc = "save"
  /\ cfg.num_epochs # 0
  /\ Abort("NameError")

\* lines 174-180: save the input and output images
SaveStep ==
  /\ pc = "save"
  /\ cfg.num_epochs = 0
  /\ files' = files
       \o (IF cfg.save_all
           THEN save_images(<<"input", gi, ii>>, input,
                            transform_feature(input, tonemap_exposure))
           ELSE <<>>)
       \o save_images(<<"output", gi, ii>>, output,
                      transform_feature(output, tonemap_exposure))
  /\ events' = events
       \o (IF cfg.save_all
           THEN <<[ev |-> "save", name |-> InputName, what |-> "input"]>> ELSE <<>>)
       \o <<[ev |-> "save", name |-> InputName, what |-> "output"]>>
  /\ ii' = ii + 1
  /\ pc' = "input"
  /\ UNCHANGED <<inferVars, callVars, cfg, groups, gi, target, tonemap_exposure,
                 metric_sum, metric_count, grad_enabled, grad_prev, grad_initial,
                 summary, error>>

\* lines 146, 187-189: the inputs of the group are done; save the target
EndGroup ==
  /\ pc = "input"
  /\ ii > Group.n
  /\ IF cfg.save_all /\ Group.target
     THEN /\ files' = files \o save_images(<<"target", gi, 0>>, target,
                                            transform_feature(target, tonemap_exposure))
          /\ events' = Append(events, [ev |-> "save", name |-> <<gi>>, what |-> "target"])
     ELSE UNCHANGED <<files, events>>
  /\ gi' = gi + 1
  /\ pc' = "group"
  /\ UNCHANGED <<inferVars, callVars, cfg, groups, ii, target, tonemap_exposure,
                 metric_sum, metric_count, grad_enabled, grad_prev, grad_initial,
                 summary, error>>

\* an external call of the current step raises: I/O on loading or saving, the
\* model, the metric computation
ExternalErrors == {"load", "model", "metric", "save"}

Raise ==
  \/ /\ pc = "group" /\ gi <= Len(groups)
     /\ Abort("load")
  \/ /\ pc = "input" /\ ii <= Group.n
     /\ Abort("load")
  \/ /\ pc = "infer"
     /\ Abort("model")
  \/ /\ pc = "metrics" /\ ComputesMetrics
     /\ Abort("metric")
  \/ /\ pc = "save" /\ cfg.num_epochs = 0
     /\ Abort("save")
  \/ /\ pc = "input" /\ ii > Group.n /\ cfg.save_all /\ Group.target
     /\ Abort("save")

\* lines 191-200: print summary
PrintSummary ==
  /\ pc = "summary"
  /\ summary' = IF metric_count > 0
                THEN [printed |-> TRUE,
                      avg |-> [m \in Range(cfg.metric) |->
                                 [num |-> metric_sum[m], den |-> metric_count]],
                      images |-> metric_count]
                ELSE NoSummary
  /\ pc' = "done"
  /\ UNCHANGED <<inferVars, callVars, cfg, groups, gi, ii, target, tonemap_exposure,
                 metric_sum, metric_count, grad_enabled, grad_prev, grad_initial,
                 files, events, error>>

NextMain ==
  \/ OpenResultFails
  \/ Start
  \/ BeginGroup
  \/ EndLoop
  \/ LoadStep
  \/ InferStep
  \/ MetricsStep
  \/ EpochNameError
  \/ SaveStep
  \/ EndGroup
  \/ Raise
  \/ PrintSummary

SpecMain == InitMain /\ [][NextMain]_vars

\* -------------------------------------------------- claims about main()
Ended == pc \in {"done", "aborted"}

EventsOf(kind) == {k \in 1..Len(events) : events[k].ev = kind}

RECURSIVE SumValues(_)
SumValues(ks) ==
  IF ks = {} THEN 0
  ELSE LET k == CHOOSE j \in ks : TRUE
       IN  events[k].value + SumValues(ks \ {k})

RECURSIVE CountInputs(_)
CountInputs(k) ==
  IF k > Len(groups) THEN 0
  ELSE (IF groups[k].target THEN groups[k].n ELSE 0) + CountInputs(k + 1)

\* the inputs for which metrics are computed in a complete run
ExpectedCount == IF cfg.metric = <<>> THEN 0 ELSE CountInputs(1)

ComparesOf(m) == {k \in EventsOf("compare") : events[k].metric = m}

\* C5: after a complete run the average reported for each requested metric is
\* the sum of its per-input values (taken as a set, in no order) over N, the
\* number of inputs of groups with a target when a metric is requested; N
\* counts each such input once however many metrics there are; nothing is
\* reported when N = 0.
C5_MetricAverage ==
  pc = "done" =>
    IF ExpectedCount > 0
    THEN /\ summary.printed
         /\ summary.images = ExpectedCount
         /\ \A m \in Range(cfg.metric) :
              /\ Cardinality(ComparesOf(m)) = ExpectedCount
              /\ summary.avg[m] = [num |-> SumValues(ComparesOf(m)),
                                   den |-> ExpectedCount]
    ELSE summary = NoSummary

C5_Witness ==
  /\ pc = "done"
  /\ Len(cfg.metric) = 2
  /\ Len(groups) = 2
  /\ groups[1].target /\ groups[1].n = 2 /\ ~groups[2].target
  /\ summary.printed
  /\ summary.avg["mse"].den = 2
  /\ summary.avg["mse"].num > 0
  /\ \E j, k \in ComparesOf("mse") : events[j].value # events[k].value

\* the display pixel array of a pixel array made from a tensor of main(): all
\* of them are the transform_feature of that tensor, values in [0, 1]
DisplayOf(img) ==
  [img EXCEPT !.px = [h \in 0..(img.H - 1), w \in 0..(img.W - 1), c \in 0..(img.C - 1)
                        |-> ClampMaxValue(ClampMinValue(
                              IF main_feature = "hdr"
                              THEN img.px[h, w, c] * tonemap_exposure
                              ELSE img.px[h, w, c]))]]

\* C6: every file of a format that holds values outside [0, 1] (exr, pfm,
\* hdr) holds the tensor remapped exactly once from [0, 1] to [-1, 1] when the
\* main feature is normal or sh1 and the tensor unchanged otherwise, whatever
\* the number and order of the formats; every other file holds the display
\* tensor.
C6_FilesRemappedOnce ==
  \A k \in 1..Len(files) :
    IF files[k].name[3] \in HdrFormats
    THEN files[k].data = IF main_feature \in {"nrm", "sh1"}
                         THEN RemapSigned(files[k].image)
                         ELSE files[k].image
    ELSE files[k].data = DisplayOf(files[k].image)

Saved(name, what) ==
  \E k \in EventsOf("save") : events[k].name = name /\ events[k].what = what

\* C7: for every processed input the writing of the output is requested
\* always, also when an epoch was selected, and the writing of the input is
\* requested if and only if save_all is set; the output of an input is written
\* before the next input is loaded.
C7_OutputAlwaysWritten ==
  /\ (Ended /\ error \notin ExternalErrors) =>
       \A k \in EventsOf("model") :
         /\ Saved(events[k].name, "output")
         /\ Saved(events[k].name, "input") <=> cfg.save_all
  /\ \A j, k \in EventsOf("load") :
       j < k => \E w \in EventsOf("save") :
                  /\ j < w /\ w < k
                  /\ events[w].name = events[j].name /\ events[w].what = "output"

\* C8: every model invocation of a run happens with gradient mode disabled,
\* and the mode in force before the run is back in force when the run has
\* ended, normally or by an error of loading, the model, the metrics or saving.
C8_NoGradScoped ==
  /\ \A k \in EventsOf("model") : events[k].grad = FALSE
  /\ pc \in {"summary", "done", "aborted"} => grad_enabled = grad_initial

C8_Witness ==
  /\ pc = "aborted"
  /\ error = "metric"
  /\ grad_initial = TRUE
  /\ grad_enabled = TRUE
  /\ gi = 2
  /\ EventsOf("model") # {}
  /\ \E k \in EventsOf("save") : events[k].what = "output"

====
